---- MODULE Spec2Model ----
(***************************************************************************)
(* The dubbing pipeline of backend/src/app/services/dubbing.py and the     *)
(* cancel route of backend/src/app/routes/dubbing.py, as a state machine.  *)
(*                                                                         *)
(* Everything runs on one asyncio event loop, so a coroutine is atomic     *)
(* between two awaits that really suspend.  The OpenAI client and yt_dlp   *)
(* are synchronous: _translate_and_synthesize and _get_youtube_audio_url   *)
(* never suspend, and each action below is one such atomic stretch.        *)
(***************************************************************************)
EXTENDS Integers, Sequences, FiniteSets, TLC

\* ------------------------------------------------------------------ bounds
MaxFrags == 3     \* transcript events the STT connection delivers to a job
MaxChunks == 2    \* audio chunks the source stream of a job yields
MaxClock == 4     \* seconds of holding text a job's clock counts before it saturates
MaxTranscripts == 3   \* transcripts the transcription callback of the pipeline receives
MaxData == 2          \* chunks the source stream of the pipeline yields
MaxAudio == 12        \* bytes of the audio given to stream_transcription

\* ------------------------------------------------------- program constants
FlushThreshold == 150   \* len(buffer_content) > 150
ProgressStep == 5       \* len(audio_segments) * 5
ProgressCap == 90       \* min(90, ...)
ProgressDone == 100     \* progress = 100 on completion
IdleFlushSeconds == 3   \* the idle-flush period the specification asks for

AllJobIds == {"j1", "j2"}     \* the ids uuid4 can return
SpecJobIds == {"j1"}          \* the ids started under Spec
None == "None"
ErrMsgs == {"cause", ""}      \* str(e) of a raised exception; may be empty
NoAudioMsg == "No audio segments were created"
OutputName == "dubbed_audio.mp3"

\* -------------------------------------------------------------------- text
\* A Python str, run-length encoded: a sequence of <<character, count>> runs
\* with no empty run and no two adjacent runs of the same character.
\* Character 0 is whitespace; character k > 0 is the letter the k-th
\* transcript event of a job is written in.
IsSpace(c) == c = 0
Space == << <<0, 1>> >>
Word(k, n) == << <<k, n>> >>

RECURSIVE TextLen(_)
TextLen(t) == IF t = <<>> THEN 0 ELSE Head(t)[2] + TextLen(Tail(t))

Concat(a, b) ==
    IF a = <<>> THEN b
    ELSE IF b = <<>> THEN a
    ELSE IF a[Len(a)][1] = b[1][1]
         THEN SubSeq(a, 1, Len(a) - 1)
              \o << <<b[1][1], a[Len(a)][2] + b[1][2]>> >> \o Tail(b)
         ELSE a \o b

LStrip(t) == IF t # <<>> /\ IsSpace(t[1][1]) THEN Tail(t) ELSE t
RStrip(t) == IF t # <<>> /\ IsSpace(t[Len(t)][1]) THEN SubSeq(t, 1, Len(t) - 1) ELSE t
Strip(t) == RStrip(LStrip(t))

\* The transcripts the k-th event of a job may carry: empty, whitespace
\* only, a one-letter word padded with whitespace (3 characters), a word
\* that brings the padded one to exactly 150 characters (3 + 1 + 146), and
\* a word longer than 150.
FragLens == {146, 151}
FragmentChoices(k) ==
    {<<>>, << <<0, 2>> >>, << <<0, 1>>, <<k, 1>>, <<0, 1>> >>}
        \cup {Word(k, n) : n \in FragLens}

\* The collaborators' pure results: the translation of a text (after
\* .strip()) and the speech synthesized for a translation.
Translate(text) == [lang |-> "en", of |-> Strip(text)]
Synthesize(translated) == [complete |-> TRUE, speech |-> translated]
\* A speech file whose write was cut short by an exception.
Partial(translated) == [complete |-> FALSE, speech |-> translated]
\* dubbed_audio.mp3: absent, or the fragments exported into it.
NoFile == [exists |-> FALSE, track |-> <<>>]
Exported(track) == [exists |-> TRUE, track |-> track]

Min(a, b) == IF a < b THEN a ELSE b

\* ------------------------------------------------------------------- state
VARIABLES
    active_jobs,   \* the registry: job id -> job record
    task,          \* per job: the locals of _process_dubbing_job and its position
    env,           \* per job: STT connection, source stream, files of job_dir
    hist,          \* per job: history (units handed over, seconds text was held, ...)
    pipeline,      \* the TranscribeSpeakPipeline of tests/deepgram_test.py
    transcription  \* the locals of TranscriptionService.stream_transcription

vars == <<active_jobs, task, env, hist, pipeline, transcription>>

NewJobTranscribing(j) ==
    [id |-> j, youtube_url |-> "url", source_language |-> "de-DE",
     target_language |-> "en", status |-> "transcribing", created_at |-> "t0",
     progress |-> 0, output_file |-> None, error |-> None, segments |-> <<>>]

NewJob(j) ==
    [id |-> j, youtube_url |-> "url", source_language |-> "de-DE",
     target_language |-> "en", status |-> "initializing", created_at |-> "t0",
     progress |-> 0, output_file |-> None, error |-> None, segments |-> <<>>]

NoTask ==
    [pc |-> "none", buffer_content |-> <<>>, transcript_segments |-> <<>>,
     translated_segments |-> <<>>, audio_segments |-> <<>>]

NoEnv ==
    [conn |-> "none", chunks_sent |-> 0, files |-> <<>>, output_track |-> NoFile]

NoHist ==
    [fragments |-> <<>>, units |-> <<>>, synthesized |-> <<>>, held |-> 0,
     cancelled_transcribing |-> FALSE, result |-> "none"]

\* TranscribeSpeakPipeline once start() has run setup() and started its
\* threads: the connections exist, nothing was streamed or received.
NewPipeline ==
    [transcription_queue |-> <<>>, exit |-> FALSE, lock_exit |-> None,
     dg_connection |-> "created", tts_socket |-> "open",
     speaker_exit |-> FALSE, speaker_stream |-> "open",
     streamer |-> "start", sender |-> "loop", player |-> "loop",
     stopper |-> "idle", data |-> 0,
     received |-> <<>>, tts_sent |-> <<>>, late_send |-> FALSE]

\* stream_transcription before a call: no audio, no chunk cut.
NoTranscription ==
    [pc |-> "idle", audio_data |-> <<>>, i |-> 0, chunks |-> <<>>]

Init ==
    /\ active_jobs = <<>>
    /\ task = [j \in AllJobIds |-> NoTask]
    /\ env = [j \in AllJobIds |-> NoEnv]
    /\ hist = [j \in AllJobIds |-> NoHist]
    /\ pipeline = NewPipeline
    /\ transcription = NoTranscription

\* ------------------------------------------------- one job's state, bundled
\* The four parts of job j's state and the exception in flight (None: none),
\* so that the code's straight-line stretches compose as functions.
Bundle(j) ==
    [job |-> active_jobs[j], task |-> task[j], env |-> env[j],
     hist |-> hist[j], exc |-> None]

CommitEverywhere(j, s) ==
    /\ active_jobs' = [k \in DOMAIN active_jobs |-> s.job]
    /\ task' = [task EXCEPT ![j] = s.task]
    /\ env' = [env EXCEPT ![j] = s.env]
    /\ hist' = [hist EXCEPT ![j] = s.hist]
    /\ UNCHANGED <<pipeline, transcription>>

Commit(j, s) ==
    /\ active_jobs' = [active_jobs EXCEPT ![j] = s.job]
    /\ task' = [task EXCEPT ![j] = s.task]
    /\ env' = [env EXCEPT ![j] = s.env]
    /\ hist' = [hist EXCEPT ![j] = s.hist]
    /\ UNCHANGED <<pipeline, transcription>>

\* ------------------------------------------------ _translate_and_synthesize
TSOutcomes == {"ok", "translate_raises", "tts_raises", "write_raises"}

SegmentIdOne(audio_segments) == 1

SegmentIdFromZero(audio_segments) == Len(audio_segments)

\* segment_id = len(audio_segments) + 1
SegmentId(audio_segments) == Len(audio_segments) + 1

ProgressUncapped(audio_segments) == Len(audio_segments) * ProgressStep

\* min(90, len(audio_segments) * 5)
Progress(audio_segments) == Min(ProgressCap, Len(audio_segments) * ProgressStep)

AppendAudioFront(audio_segments, speech_file_path) ==
    <<speech_file_path>> \o audio_segments

\* audio_segments.append(speech_file_path)
AppendAudio(audio_segments, speech_file_path) == Append(audio_segments, speech_file_path)

LogSegmentFront(segments, text, translated_text) ==
    <<[original |-> text, translated |-> translated_text]>> \o segments

\* active_jobs[job_id]["segments"].append({"original": ..., "translated": ...})
LogSegment(segments, text, translated_text) ==
    Append(segments, [original |-> text, translated |-> translated_text])

\* The call for `text`: the translation is logged in segments before the
\* speech is made; the speech file is named by the number of fragments so
\* far; every exception is re-raised to the caller (s.exc).
TranslateAndSynthesize(s, text, outcome, msg) ==
    LET handed == [s EXCEPT !.hist.units = Append(@, text), !.hist.held = 0]
        translated_text == Translate(text)
        logged == [handed EXCEPT
                     !.task.translated_segments = Append(@, translated_text),
                     !.job.segments = LogSegment(@, text, translated_text)]
        segment_id == SegmentId(s.task.audio_segments)
        audio == AppendAudio(s.task.audio_segments, segment_id)
    IN  CASE outcome = "translate_raises" -> [handed EXCEPT !.exc = msg]
          [] outcome = "tts_raises" -> [logged EXCEPT !.exc = msg]
          [] outcome = "write_raises" ->
                [logged EXCEPT !.env.files = (segment_id :> Partial(translated_text)) @@ @,
                               !.exc = msg]
          [] OTHER ->
                [logged EXCEPT
                   !.env.files = (segment_id :> Synthesize(translated_text)) @@ @,
                   !.task.audio_segments = audio,
                   !.job.progress = Progress(audio),
                   !.hist.synthesized = Append(@, Len(handed.hist.units))]

\* ---------------------------------------------------- _process_dubbing_job
ExceptHandlerNoError(s) ==
    [s EXCEPT !.job.status = "failed",
              !.task.pc = "done", !.hist.result = "raised", !.exc = None]

\* except Exception as e: status = "failed", error = str(e)
ExceptHandler(s) ==
    [s EXCEPT !.job.status = "failed", !.job.error = s.exc,
              !.task.pc = "done", !.hist.result = "raised", !.exc = None]

Raise(s, msg) == [s EXCEPT !.exc = msg]

\* Lines 101-162, up to the first await that suspends (dg_connection.start):
\* yt_dlp is synchronous, so no other coroutine runs in between.
BeginTask(s, extracted, msg) ==
    LET s0 == [s EXCEPT !.job.status = "extracting_audio"]
    IN  IF extracted
        THEN [s0 EXCEPT !.job.status = "transcribing",
                        !.task.pc = "start",
                        !.task.buffer_content = <<>>,
                        !.task.transcript_segments = <<>>,
                        !.task.translated_segments = <<>>,
                        !.task.audio_segments = <<>>]
        ELSE ExceptHandler(Raise(s0, msg))

AppendFragmentOverwrite(buffer_content, transcript) == transcript

\* if buffer_content: buffer_content += " " + transcript, else = transcript
AppendFragment(buffer_content, transcript) ==
    IF buffer_content # <<>>
    THEN Concat(buffer_content, Concat(Space, transcript))
    ELSE transcript

IsBlankOnlyEmpty(transcript) == transcript = <<>>

\* if not transcript.strip(): return
IsBlank(transcript) == Strip(transcript) = <<>>

ShouldFlushAtThreshold(buffer_content) == TextLen(buffer_content) >= FlushThreshold

\* if len(buffer_content) > 150
ShouldFlush(buffer_content) == TextLen(buffer_content) > FlushThreshold

FinalFlushSkipped(buffer_content) == FALSE

\* if buffer_content.strip(): the end-of-stream flush
FinalFlushNeeded(buffer_content) == Strip(buffer_content) # <<>>

\* if active_jobs[job_id].get("status") == "cancelled": break
CancelObserved(status) == status = "cancelled"

\* on_message(result) for a transcript that is not blank
HandleTranscript(s, transcript, outcome, msg) ==
    LET s1 == [s EXCEPT !.task.transcript_segments = Append(@, transcript),
                        !.task.buffer_content = AppendFragment(@, transcript)]
    IN  IF ShouldFlush(s1.task.buffer_content)
        THEN TranslateAndSynthesize([s1 EXCEPT !.task.buffer_content = <<>>],
                                    s1.task.buffer_content, outcome, msg)
        ELSE s1

\* Lines 178-186: process any remaining buffer content
FinalFlush(s, outcome, msg) ==
    IF FinalFlushNeeded(s.task.buffer_content)
    THEN TranslateAndSynthesize(s, s.task.buffer_content, outcome, msg)
    ELSE s

RECURSIVE ReadFiles(_, _)
ReadFiles(files, audio_segments) ==
    IF audio_segments = <<>> THEN <<>>
    ELSE <<files[Head(audio_segments)]>> \o ReadFiles(files, Tail(audio_segments))

HasAudioAlways(audio_segments) == TRUE

\* if audio_segments:
HasAudio(audio_segments) == audio_segments # <<>>

MarkCompletedWithError(job, output_file) ==
    [job EXCEPT !.status = "completed", !.output_file = output_file,
                !.progress = ProgressDone, !.error = NoAudioMsg]

MarkCompletedNoOutput(job, output_file) ==
    [job EXCEPT !.status = "completed", !.progress = ProgressDone]

MarkCompletedNoProgress(job, output_file) ==
    [job EXCEPT !.status = "completed", !.output_file = output_file]

\* Lines 199-201: status, output_file and progress of a job with audio
MarkCompleted(job, output_file) ==
    [job EXCEPT !.status = "completed", !.output_file = output_file,
                !.progress = ProgressDone]

MarkNoAudioNoError(job) == [job EXCEPT !.status = "completed_no_audio"]

MarkNoAudioKeepsStatus(job) == [job EXCEPT !.error = NoAudioMsg]

\* Lines 204-205: no audio segments were created
MarkNoAudio(job) ==
    [job EXCEPT !.status = "completed_no_audio", !.error = NoAudioMsg]

\* Lines 188-205: combine the fragments and decide the final status
Assemble(s, exported, msg) ==
    IF HasAudio(s.task.audio_segments)
    THEN IF exported
         THEN [s EXCEPT !.env.output_track =
                            Exported(ReadFiles(s.env.files, s.task.audio_segments)),
                        !.job = MarkCompleted(@, OutputName),
                        !.task.pc = "done", !.hist.result = "decided"]
         ELSE Raise(s, msg)
    ELSE [s EXCEPT !.job = MarkNoAudio(@),
                   !.task.pc = "done", !.hist.result = "decided"]

\* Lines 176-210: finish() returns and the rest runs without suspending
FinishTask(s, finished, outcome, exported, msg) ==
    IF ~finished THEN ExceptHandler(Raise(s, msg))
    ELSE LET s1 == [s EXCEPT !.env.conn = "closed"]
             s2 == FinalFlush(s1, outcome, msg)
             s3 == IF s2.exc # None THEN s2 ELSE Assemble(s2, exported, msg)
         IN  IF s3.exc # None THEN ExceptHandler(s3) ELSE s3

\* ---------------------------------------------------------------- actions
\* POST /: start_dubbing -> start_dubbing_job.  The record is stored under a
\* fresh uuid4 and the background task is scheduled; the route then reads
\* the record back for its response.
StartJob(j) ==
    /\ j \notin DOMAIN active_jobs
    /\ active_jobs' = (j :> NewJob(j)) @@ active_jobs
    /\ task' = [task EXCEPT ![j] = [NoTask EXCEPT !.pc = "scheduled"]]
    /\ UNCHANGED <<env, hist, pipeline, transcription>>

\* The task's first run, up to `await dg_connection.start(options)`.
Begin(j) ==
    /\ j \in DOMAIN active_jobs
    /\ task[j].pc = "scheduled"
    /\ \E s \in {BeginTask(Bundle(j), extracted, msg) :
                      extracted \in BOOLEAN, msg \in ErrMsgs} : Commit(j, s)

\* dg_connection.start returns or raises.
StartConnection(j) ==
    /\ j \in DOMAIN active_jobs
    /\ task[j].pc = "start"
    /\ \/ Commit(j, [Bundle(j) EXCEPT !.env.conn = "open",
                                         !.task.pc = "stream_open"])
       \/ \E msg \in ErrMsgs : Commit(j, ExceptHandler(Raise(Bundle(j), msg)))

\* client.stream("GET", audio_url) answers or raises.
OpenStream(j) ==
    /\ j \in DOMAIN active_jobs
    /\ task[j].pc = "stream_open"
    /\ \/ Commit(j, [Bundle(j) EXCEPT !.task.pc = "next_chunk"])
       \/ \E msg \in ErrMsgs : Commit(j, ExceptHandler(Raise(Bundle(j), msg)))

\* async for chunk in response.aiter_bytes(): await dg_connection.send(chunk)
\* The stream yields a chunk, which is sent at once; or it ends, and
\* finish() is called; or reading or sending raises.
NextChunk(j) ==
    /\ j \in DOMAIN active_jobs
    /\ task[j].pc = "next_chunk"
    /\ \/ /\ env[j].chunks_sent < MaxChunks
          /\ Commit(j, [Bundle(j) EXCEPT !.env.chunks_sent = @ + 1,
                                         !.task.pc = "sleep"])
       \/ Commit(j, [Bundle(j) EXCEPT !.task.pc = "finishing"])
       \/ \E msg \in ErrMsgs : Commit(j, ExceptHandler(Raise(Bundle(j), msg)))

\* await asyncio.sleep(0.01) returns; the cancellation check follows it.
Wake(j) ==
    /\ j \in DOMAIN active_jobs
    /\ task[j].pc = "sleep"
    /\ Commit(j, [Bundle(j) EXCEPT !.task.pc =
                      IF CancelObserved(active_jobs[j].status)
                      THEN "finishing" ELSE "next_chunk"])

\* await dg_connection.finish() returns or raises; the final flush, the
\* assembly and the final status follow without another await.
Finish(j) ==
    /\ j \in DOMAIN active_jobs
    /\ task[j].pc = "finishing"
    /\ \E s \in {FinishTask(Bundle(j), finished, outcome, exported, msg) :
                      finished \in BOOLEAN, outcome \in TSOutcomes,
                      exported \in BOOLEAN, msg \in ErrMsgs} : Commit(j, s)

\* on_message(result), called by the connection's listener
Delivered(s, transcript, outcome, msg, goes_on) ==
    LET s0 == [s EXCEPT !.hist.fragments = Append(@, transcript)]
        s1 == IF IsBlank(transcript) THEN s0
              ELSE HandleTranscript(s0, transcript, outcome, msg)
    IN  IF s1.exc # None
        THEN [s1 EXCEPT !.env.conn = IF goes_on THEN "open" ELSE "broken",
                        !.exc = None]
        ELSE s1

\* The STT connection delivers a transcript event to on_message.  An
\* exception of the handler goes to the connection's listener, not to the
\* job's task; the listener goes on or stops.
OnMessage(j) ==
    /\ j \in DOMAIN active_jobs
    /\ env[j].conn = "open"
    /\ env[j].chunks_sent >= 1
    /\ Len(hist[j].fragments) < MaxFrags
    /\ \E s \in {Delivered(Bundle(j), transcript, outcome, msg, goes_on) :
                      transcript \in FragmentChoices(Len(hist[j].fragments) + 1),
                      outcome \in TSOutcomes, msg \in ErrMsgs,
                      goes_on \in BOOLEAN} : Commit(j, s)

CancelAllowedUnlessFailed(status) == status # "failed"

\* if job_status["status"] not in ["completed", "failed"]
CancelAllowed(status) == status \notin {"completed", "failed"}

GetJobStatusOrNew(jobs, j) ==
    [code |-> 200, body |-> IF j \in DOMAIN jobs THEN jobs[j] ELSE NewJob(j)]

\* get_job_status(job_id): the record itself, or HTTPException 404.  The
\* routes pass the 404 on (except HTTPException: raise).
GetJobStatus(jobs, j) ==
    IF j \notin DOMAIN jobs
    THEN [code |-> 404, detail |-> "Job not found"]
    ELSE [code |-> 200, body |-> jobs[j]]

NotCompleteOrNoAudio(status) == status \notin {"completed", "completed_no_audio"}

\* if job_status["status"] != "completed"
NotComplete(status) == status # "completed"

\* GET /{job_id}/audio: get_dubbed_audio; on_disk is os.path.exists(output_file)
GetDubbedAudio(jobs, j, on_disk) ==
    LET found == GetJobStatus(jobs, j)
    IN  IF found.code # 200 THEN found
        ELSE IF NotComplete(found.body.status)
        THEN [code |-> 400, detail |-> "Job is not complete"]
        ELSE IF found.body.output_file = None
        THEN [code |-> 404, detail |-> "No output file available"]
        ELSE IF ~on_disk
        THEN [code |-> 404, detail |-> "Output file not found"]
        ELSE [code |-> 200, path |-> found.body.output_file]

\* DELETE /{job_id}: cancel_dubbing_job, its response and the registry it
\* leaves.
CancelDubbingJob(jobs, j) ==
    LET found == GetJobStatus(jobs, j)
    IN  IF found.code # 200 THEN [code |-> 404, jobs |-> jobs]
        ELSE IF CancelAllowed(found.body.status)
        THEN [code |-> 200, jobs |-> [jobs EXCEPT ![j].status = "cancelled"]]
        ELSE [code |-> 200, jobs |-> jobs]

CancelAnytime(j) ==
    /\ active_jobs' = CancelDubbingJob(active_jobs, j).jobs
    /\ hist' = IF j \in DOMAIN active_jobs /\ CancelAllowed(active_jobs[j].status)
               THEN [hist EXCEPT ![j].cancelled_transcribing =
                         @ \/ active_jobs[j].status = "transcribing"]
               ELSE hist
    /\ UNCHANGED <<task, env, pipeline, transcription>>

\* DELETE /{job_id} arrives.  A client learns a job's id from the start
\* response, which is sent after the task's first run was queued, so a
\* request for an existing job never precedes Begin.
Cancel(j) ==
    /\ j \in DOMAIN active_jobs => task[j].pc # "scheduled"
    /\ active_jobs' = CancelDubbingJob(active_jobs, j).jobs
    /\ hist' = IF j \in DOMAIN active_jobs /\ CancelAllowed(active_jobs[j].status)
               THEN [hist EXCEPT ![j].cancelled_transcribing =
                         @ \/ active_jobs[j].status = "transcribing"]
               ELSE hist
    /\ UNCHANGED <<task, env, pipeline, transcription>>

\* Job j waits for the next chunk of its source, which may take any time,
\* with the connection open and text sitting in the accumulator.
Holding(j) ==
    /\ j \in DOMAIN active_jobs
    /\ task[j].pc = "next_chunk"
    /\ env[j].conn = "open"
    /\ task[j].buffer_content # <<>>

\* One second passes.  No task is in its asyncio.sleep(0.01), which is over
\* before a second has passed.
Tick ==
    /\ \A j \in AllJobIds : task[j].pc # "sleep"
    /\ \E j \in AllJobIds : Holding(j) /\ hist[j].held < MaxClock
    /\ hist' = [j \in AllJobIds |->
                   IF Holding(j) /\ hist[j].held < MaxClock
                   THEN [hist[j] EXCEPT !.held = @ + 1] ELSE hist[j]]
    /\ UNCHANGED <<active_jobs, task, env, pipeline, transcription>>

JobStep(j) ==
    \/ Begin(j)
    \/ StartConnection(j)
    \/ OpenStream(j)
    \/ NextChunk(j)
    \/ Wake(j)
    \/ Finish(j)
    \/ OnMessage(j)
    \/ Cancel(j)

Next ==
    \/ \E j \in SpecJobIds : StartJob(j)
    \/ \E j \in AllJobIds : JobStep(j)

Spec == Init /\ [][Next]_vars

\* The same program with the passing of time observed.
NextTimed == Next \/ Tick

SpecTimed == Init /\ [][NextTimed]_vars

\* Several jobs whose sources carry no speech: the connection delivers no
\* transcript, every other step is as in Spec, and every id may be started.
SilentStep(j) ==
    \/ Begin(j)
    \/ StartConnection(j)
    \/ OpenStream(j)
    \/ NextChunk(j)
    \/ Wake(j)
    \/ Finish(j)
    \/ Cancel(j)

NextSilent ==
    \/ \E j \in AllJobIds : StartJob(j)
    \/ \E j \in AllJobIds : SilentStep(j)

SpecSilent == Init /\ [][NextSilent]_vars

\* on_message for the first transcript of a job: a source with one utterance
OnFirstMessage(j) == hist[j].fragments = <<>> /\ OnMessage(j)

\* Two jobs of which the first has a source with speech.
NextPair ==
    \/ \E j \in AllJobIds : StartJob(j)
    \/ \E j \in AllJobIds : SilentStep(j)
    \/ \E j \in SpecJobIds : OnFirstMessage(j)

SpecPair == Init /\ [][NextPair]_vars

\* The steps of the background task of job j; each is the return of the
\* await the task is suspended in (or its first run by the event loop).
TaskStep(j) ==
    \/ Begin(j)
    \/ StartConnection(j)
    \/ OpenStream(j)
    \/ NextChunk(j)
    \/ Wake(j)
    \/ Finish(j)

\* The event loop runs every ready task, every remote call returns or
\* raises, and the source stream yields its next chunk or ends.
TaskFairness == \A j \in SpecJobIds : WF_vars(TaskStep(j))

\* One job whose source has one utterance, with a fair event loop.
NextFair ==
    \/ \E j \in SpecJobIds : StartJob(j)
    \/ \E j \in SpecJobIds : SilentStep(j)
    \/ \E j \in SpecJobIds : OnFirstMessage(j)

SpecFair == Init /\ [][NextFair]_vars /\ TaskFairness

\* The steps of the task that do not wait for the source: the returns of
\* the remote calls and of asyncio.sleep.
ReturnStep(j) ==
    \/ Begin(j)
    \/ StartConnection(j)
    \/ OpenStream(j)
    \/ Wake(j)
    \/ Finish(j)

\* A source that may stall: the next chunk of aiter_bytes (line 165) may
\* never come, every other await returns.
SpecStall ==
    Init /\ [][NextFair]_vars /\ \A j \in SpecJobIds : WF_vars(ReturnStep(j))

\* ------------------------------------------------- tests/deepgram_test.py
\* TranscribeSpeakPipeline: the transcription callback, the tts_sender
\* thread, the transcription_streamer thread, the Speaker's playback thread
\* and stop() on the main thread.  Each action is one operation on the
\* shared objects (Event, Lock, Queue, connection), which the interpreter
\* executes atomically.
Sentences == {"", "uno", "dos"}

SetPipeline(p) ==
    /\ pipeline' = p
    /\ UNCHANGED <<active_jobs, task, env, hist, transcription>>

\* Lines 186-192: on_transcription drops a sentence of length 0
OnTranscriptionPut(queue, sentence) ==
    IF Len(sentence) = 0 THEN queue ELSE Append(queue, sentence)

\* Line 222: `if text:`
Truthy(text) == text # ""

\* The callback is called by the connection's listener for a transcript.
OnTranscription ==
    /\ pipeline.dg_connection = "started"
    /\ Len(pipeline.received) < MaxTranscripts
    /\ \E sentence \in Sentences :
          SetPipeline([pipeline EXCEPT
              !.received = Append(@, sentence),
              !.transcription_queue = OnTranscriptionPut(@, sentence)])

\* Line 218: while not self.exit.is_set()
SenderLoop ==
    /\ pipeline.sender = "loop"
    /\ SetPipeline([pipeline EXCEPT
           !.sender = IF pipeline.exit THEN "exited" ELSE "get"])

QueueGetKeeps(queue) == [text |-> Head(queue), rest |-> queue]

\* queue.Queue.get: the oldest item is removed and returned
QueueGet(queue) == [text |-> Head(queue), rest |-> Tail(queue)]

\* Lines 219-228: get(timeout=1.0) returns a text or raises queue.Empty; a
\* text is sent to the TTS socket, and a failed send is printed and dropped.
SenderGet ==
    /\ pipeline.sender = "get"
    /\ \/ /\ pipeline.transcription_queue = <<>>
          /\ SetPipeline([pipeline EXCEPT !.sender = "loop"])
       \/ /\ pipeline.transcription_queue # <<>>
          /\ LET got == QueueGet(pipeline.transcription_queue)
                 p == [pipeline EXCEPT !.transcription_queue = got.rest,
                                        !.sender = "loop"]
             IN  \/ /\ Truthy(got.text) /\ pipeline.tts_socket = "open"
                    /\ SetPipeline([p EXCEPT !.tts_sent = Append(@, got.text)])
                 \/ SetPipeline(p)

PlayerGoesOnAlways(stop) == TRUE

\* Line 135: while not stop.is_set()
PlayerGoesOn(stop) == ~stop

PlayerLoop ==
    /\ pipeline.player = "loop"
    /\ SetPipeline([pipeline EXCEPT
           !.player = IF PlayerGoesOn(pipeline.speaker_exit)
                      THEN "get" ELSE "exited"])

\* Lines 136-144: get(True, TIMEOUT) returns data, which is written to the
\* stream, or raises queue.Empty; an error of the write is printed.
PlayerGet ==
    /\ pipeline.player = "get"
    /\ SetPipeline([pipeline EXCEPT !.player = "loop"])

\* Line 244: dg_connection.start(options) returns or raises
StreamerStart ==
    /\ pipeline.streamer = "start"
    /\ \/ SetPipeline([pipeline EXCEPT !.dg_connection = "started",
                                        !.streamer = "iter"])
       \/ SetPipeline([pipeline EXCEPT !.streamer = "exited"])

\* Line 247: iter_bytes yields the next chunk, ends or raises
StreamerNext ==
    /\ pipeline.streamer = "iter"
    /\ \/ /\ pipeline.data < MaxData
          /\ SetPipeline([pipeline EXCEPT !.data = @ + 1,
                                           !.streamer = "acquire"])
       \/ SetPipeline([pipeline EXCEPT !.streamer = "exited"])

\* Line 248: self.lock_exit.acquire()
StreamerAcquire ==
    /\ pipeline.streamer = "acquire"
    /\ pipeline.lock_exit = None
    /\ SetPipeline([pipeline EXCEPT !.lock_exit = "streamer",
                                     !.streamer = "check"])

\* Lines 249-252: the check of exit and the release of the lock
StreamerCheck ==
    /\ pipeline.streamer = "check"
    /\ SetPipeline([pipeline EXCEPT
           !.lock_exit = None,
           !.streamer = IF pipeline.exit THEN "exited" ELSE "send"])

\* Line 254: dg_connection.send(data) returns or raises
StreamerSend ==
    /\ pipeline.streamer = "send"
    /\ \E raised \in BOOLEAN :
          SetPipeline([pipeline EXCEPT
              !.late_send = @ \/ pipeline.dg_connection = "finished",
              !.streamer = IF raised THEN "exited" ELSE "iter"])

\* Lines 288-294: the user presses Enter; stop() sets exit
StopSetExit ==
    /\ pipeline.stopper = "idle"
    /\ SetPipeline([pipeline EXCEPT !.exit = TRUE, !.stopper = "finish"])

\* Lines 297-298: self.dg_connection.finish()
StopFinish ==
    /\ pipeline.stopper = "finish"
    /\ SetPipeline([pipeline EXCEPT !.dg_connection = "finished",
                                     !.stopper = "close_tts"])

\* Lines 301-307: Flush, Close and close() of the TTS socket; an exception
\* of a send skips the close and is swallowed
StopCloseTts ==
    /\ pipeline.stopper = "close_tts"
    /\ \E closed \in BOOLEAN :
          SetPipeline([pipeline EXCEPT
              !.tts_socket = IF closed THEN "closed" ELSE @,
              !.stopper = "speaker_stop"])

\* Lines 115-121: Speaker.stop sets its _exit and closes the stream
StopSpeaker ==
    /\ pipeline.stopper = "speaker_stop"
    /\ SetPipeline([pipeline EXCEPT !.speaker_exit = TRUE,
                                     !.speaker_stream = "closed",
                                     !.stopper = "join_player"])

\* Line 123: self._thread.join()
StopJoinPlayer ==
    /\ pipeline.stopper = "join_player"
    /\ pipeline.player = "exited"
    /\ SetPipeline([pipeline EXCEPT !.stopper = "join_streamer"])

\* Lines 314-315: self.transcription_thread.join()
StopJoinStreamer ==
    /\ pipeline.stopper = "join_streamer"
    /\ pipeline.streamer = "exited"
    /\ SetPipeline([pipeline EXCEPT !.stopper = "join_sender"])

\* Lines 318-319: self.tts_sender_thread.join(); stop() returns
StopJoinSender ==
    /\ pipeline.stopper = "join_sender"
    /\ pipeline.sender = "exited"
    /\ SetPipeline([pipeline EXCEPT !.stopper = "stopped"])

SenderStep == SenderLoop \/ SenderGet

PlayerStep == PlayerLoop \/ PlayerGet

StreamerStep ==
    \/ StreamerStart
    \/ StreamerNext
    \/ StreamerAcquire
    \/ StreamerCheck
    \/ StreamerSend

\* stop() once it was called
StopStep ==
    \/ StopFinish
    \/ StopCloseTts
    \/ StopSpeaker
    \/ StopJoinPlayer
    \/ StopJoinStreamer
    \/ StopJoinSender

NextPipeline ==
    \/ OnTranscription
    \/ SenderStep
    \/ PlayerStep
    \/ StreamerStep
    \/ StopSetExit
    \/ StopStep

SpecPipeline == Init /\ [][NextPipeline]_vars

\* The callback for the first transcript of the stream
OnFirstTranscription == pipeline.received = <<>> /\ OnTranscription

NextStopping ==
    \/ OnFirstTranscription
    \/ SenderStep
    \/ PlayerStep
    \/ StreamerStep
    \/ StopSetExit
    \/ StopStep

\* Every thread is scheduled, every blocking call returns (the queues' get
\* after the timeout at the latest) and the source yields a chunk or ends.
SpecStopping ==
    /\ Init /\ [][NextStopping]_vars
    /\ WF_vars(SenderStep) /\ WF_vars(PlayerStep)
    /\ WF_vars(StreamerStep) /\ WF_vars(StopStep)

\* ------------------------------------- services/transcription.py, 116-178
NumChunks == 10    \* len(audio_data) // 10, range(10)
LastChunk == 9     \* `if i < 9`

\* audio_data[start_idx:end_idx] of Python: the indices are clamped to the
\* length, and the slice is empty when they cross.
Slice(data, start_idx, end_idx) ==
    LET lo == Min(start_idx, Len(data))
        hi == Min(end_idx, Len(data))
    IN  IF hi <= lo THEN <<>> ELSE SubSeq(data, lo + 1, hi)

\* Line 126
ChunkSize(audio_data) == Len(audio_data) \div NumChunks

EndIdxNoRemainder(i, audio_data) ==
    i * ChunkSize(audio_data) + ChunkSize(audio_data)

\* Lines 129-130
EndIdx(i, audio_data) ==
    IF i < LastChunk THEN i * ChunkSize(audio_data) + ChunkSize(audio_data)
    ELSE Len(audio_data)

\* Lines 129-131
Chunk(i, audio_data) ==
    Slice(audio_data, i * ChunkSize(audio_data), EndIdx(i, audio_data))

SetTranscription(t) ==
    /\ transcription' = t
    /\ UNCHANGED <<active_jobs, task, env, hist, pipeline>>

\* Lines 116-126: the call reads the whole audio; a byte is written as its
\* position in the input.
StreamTranscription ==
    /\ transcription.pc = "idle"
    /\ \E n \in 0..MaxAudio :
          SetTranscription([NoTranscription EXCEPT
              !.pc = "loop", !.audio_data = [k \in 1..n |-> k]])

\* Lines 128-176: one round of the loop.  The chunk is cut and handed to
\* prerecorded(), which returns (the results are yielded, the sleep
\* follows) or raises, which ends the call (lines 178-180).
CutChunk ==
    /\ transcription.pc = "loop"
    /\ \/ SetTranscription([transcription EXCEPT
              !.chunks = Append(@, Chunk(transcription.i, transcription.audio_data)),
              !.i = @ + 1,
              !.pc = IF transcription.i + 1 < NumChunks THEN "loop" ELSE "done"])
       \/ SetTranscription([transcription EXCEPT
              !.chunks = Append(@, Chunk(transcription.i, transcription.audio_data)),
              !.pc = "raised"])

NextTranscription == StreamTranscription \/ CutChunk

SpecTranscription == Init /\ [][NextTranscription]_vars

\* ------------------------------------------------------------------ claims
Jobs == DOMAIN active_jobs

TerminalStates == {"completed", "completed_no_audio", "failed", "cancelled"}

\* The texts of a sequence joined by single spaces.
RECURSIVE JoinSpace(_)
JoinSpace(texts) ==
    IF texts = <<>> THEN <<>>
    ELSE IF Len(texts) = 1 THEN texts[1]
    ELSE Concat(texts[1], Concat(Space, JoinSpace(Tail(texts))))

NotBlank(t) == Strip(t) # <<>>

\* The transcripts delivered to job j that are not blank, in delivery order.
NonBlankFragments(j) == SelectSeq(hist[j].fragments, NotBlank)

\* finish() has returned for job j: the ingestion loop is over and the
\* end-of-stream flush has run.
StreamEnded(j) == env[j].conn = "closed"

\* C1: once a cancel request was accepted while the job was transcribing,
\* the status is never completed, and a pipeline that runs to its end
\* without an exception leaves the status cancelled.
C1_CancelledNeverCompleted ==
    \A j \in Jobs :
        hist[j].cancelled_transcribing =>
            /\ active_jobs[j].status # "completed"
            /\ hist[j].result = "decided" => active_jobs[j].status = "cancelled"

\* C2: terminal states are final: no step changes a status that is
\* completed, completed_no_audio, failed or cancelled to another value.
C2_TerminalFinal ==
    [][\A j \in Jobs :
          active_jobs[j].status \in TerminalStates =>
              active_jobs'[j].status = active_jobs[j].status]_vars

\* C3: a cancel request for a job in a terminal state leaves every field of
\* the job record unchanged.
C3_CancelTerminalNoOp ==
    [][\A j \in Jobs :
          (Cancel(j) /\ active_jobs[j].status \in TerminalStates) =>
              active_jobs'[j] = active_jobs[j]]_vars

\* C4: the exported track is the speech of the units that were synthesized,
\* in the order in which the units were created from the transcript.
C4_TrackInUnitOrder ==
    \A j \in Jobs :
        env[j].output_track.exists =>
            /\ \A a, b \in 1..Len(hist[j].synthesized) :
                   a < b => hist[j].synthesized[a] < hist[j].synthesized[b]
            /\ env[j].output_track.track =
                   [i \in 1..Len(hist[j].synthesized) |->
                       [complete |-> TRUE,
                        speech |-> Translate(hist[j].units[hist[j].synthesized[i]])]]

C4_Witness ==
    \E j \in Jobs :
        /\ env[j].output_track.exists
        /\ Len(env[j].output_track.track) >= 2
        /\ Len(hist[j].units) > Len(hist[j].synthesized)

\* C5: the units handed to translate/synthesize, joined by single spaces in
\* creation order, are the non-blank fragments joined by single spaces:
\* while the stream is open together with the text still accumulated, and
\* once the stream has ended on their own.
C5_UnitsAreFragments ==
    \A j \in Jobs :
        LET pending == IF task[j].buffer_content = <<>> THEN <<>>
                       ELSE <<task[j].buffer_content>>
        IN  JoinSpace(IF StreamEnded(j) THEN hist[j].units
                      ELSE hist[j].units \o pending)
                = JoinSpace(NonBlankFragments(j))

C5_Witness ==
    \E j \in Jobs :
        /\ StreamEnded(j)
        /\ Len(NonBlankFragments(j)) = 3
        /\ Len(hist[j].units) = 2
        /\ TextLen(hist[j].units[2]) <= FlushThreshold

\* C6: the accumulator never holds more than 150 characters; a fragment
\* whose append makes it longer than 150 characters makes the whole content
\* one unit and empties the accumulator, and any other append emits no unit.
C6_SizeFlush ==
    /\ [](\A j \in Jobs : TextLen(task[j].buffer_content) <= 150)
    /\ [][\A j \in Jobs :
             (/\ Len(hist'[j].fragments) = Len(hist[j].fragments) + 1
              /\ NotBlank(hist'[j].fragments[Len(hist'[j].fragments)])) =>
                 LET transcript == hist'[j].fragments[Len(hist'[j].fragments)]
                     appended ==
                         IF task[j].buffer_content = <<>> THEN transcript
                         ELSE Concat(Concat(task[j].buffer_content, Space),
                                     transcript)
                 IN  IF TextLen(appended) > 150
                     THEN /\ hist'[j].units = Append(hist[j].units, appended)
                          /\ task'[j].buffer_content = <<>>
                     ELSE /\ hist'[j].units = hist[j].units
                          /\ task'[j].buffer_content = appended]_vars

C6_Witness ==
    \E j \in Jobs :
        /\ env[j].conn = "open"
        /\ Len(hist[j].units) = 1
        /\ TextLen(hist[j].units[1]) > 150
        /\ TextLen(task[j].buffer_content) = 150

\* C7: text in the accumulator of a job whose stream is open is not held
\* longer than the idle-flush period of 3 seconds.
C7_IdleFlush ==
    \A j \in Jobs : Holding(j) => hist[j].held <= IdleFlushSeconds

\* C8: when the ingestion loop is over, non-blank text left in the
\* accumulator has been handed over as the one final unit.
C8_FinalFlush ==
    \A j \in Jobs :
        (StreamEnded(j) /\ Strip(task[j].buffer_content) # <<>>) =>
            /\ hist[j].units # <<>>
            /\ hist[j].units[Len(hist[j].units)] = task[j].buffer_content
            /\ Cardinality({i \in 1..Len(hist[j].units) :
                               hist[j].units[i] = task[j].buffer_content}) = 1

C8_Witness ==
    \E j \in Jobs :
        /\ hist[j].result = "decided"
        /\ hist[j].cancelled_transcribing
        /\ Strip(task[j].buffer_content) # <<>>
        /\ Len(hist[j].units) = 2

\* The step in which job j's pipeline finishes without an exception.
Decides(j) == hist[j].result # "decided" /\ hist'[j].result = "decided"

\* C9: the step in which the pipeline finishes without an exception makes
\* the job completed with output_file set and progress 100 if an audio
\* fragment was produced, and otherwise completed_no_audio with an error
\* set and output_file unset.
C9_FinalOutcome ==
    [][\A j \in Jobs :
          Decides(j) =>
              IF hist'[j].synthesized # <<>>
              THEN /\ active_jobs'[j].status = "completed"
                   /\ active_jobs'[j].output_file # None
                   /\ active_jobs'[j].progress = 100
              ELSE /\ active_jobs'[j].status = "completed_no_audio"
                   /\ active_jobs'[j].error # None
                   /\ active_jobs'[j].output_file = None]_vars

C9_Witness ==
    \E j \in Jobs :
        /\ hist[j].result = "decided"
        /\ active_jobs[j].status = "completed"
        /\ active_jobs[j].progress = 100
        /\ Len(hist[j].synthesized) = 1
        /\ Len(hist[j].units) = 2

\* C10: a job that received no non-blank fragment has no unit, no segments
\* entry and no output_file, and the step in which its pipeline finishes
\* without an exception makes it completed_no_audio.
C10_EmptyTranscript ==
    /\ [](\A j \in Jobs :
             NonBlankFragments(j) = <<>> =>
                 /\ hist[j].units = <<>>
                 /\ active_jobs[j].segments = <<>>
                 /\ active_jobs[j].output_file = None
                 /\ active_jobs[j].status # "completed")
    /\ [][\A j \in Jobs :
             (Decides(j) /\ SelectSeq(hist'[j].fragments, NotBlank) = <<>>) =>
                 active_jobs'[j].status = "completed_no_audio"]_vars

C10_Witness ==
    \E j \in Jobs :
        /\ hist[j].result = "decided"
        /\ hist[j].fragments # <<>>
        /\ NonBlankFragments(j) = <<>>
        /\ active_jobs[j].status = "completed_no_audio"

\* A unit was handed to _translate_and_synthesize in this step and the call
\* raised: the unit has no audio fragment.
UnitFailed(j) ==
    /\ Len(hist'[j].units) = Len(hist[j].units) + 1
    /\ hist'[j].synthesized = hist[j].synthesized

\* C11: a failure of translation or synthesis for one unit, flushed from the
\* transcript callback or at the end of the stream, never moves the job to
\* failed.
C11_UnitFailureNeverFails ==
    [][\A j \in Jobs :
          UnitFailed(j) =>
              ~(active_jobs[j].status # "failed" /\ active_jobs'[j].status = "failed")]_vars

\* The step in which job j's task ends after finish() returned, either by
\* deciding the final status or by a unit-level failure of the final flush.
EndsByUnits(j) ==
    /\ task[j].pc # "done"
    /\ task'[j].pc = "done"
    /\ env'[j].conn = "closed"
    /\ hist'[j].result = "decided" \/ UnitFailed(j)

\* C12: a job some but not all of whose units were skipped after a unit-level
\* failure ends completed, and its output track is the speech of the units
\* that were not skipped, in their order.
C12_SkippedUnitsStillComplete ==
    [][\A j \in Jobs :
          (/\ EndsByUnits(j)
           /\ hist'[j].synthesized # <<>>
           /\ Len(hist'[j].synthesized) < Len(hist'[j].units)) =>
              /\ active_jobs'[j].status = "completed"
              /\ env'[j].output_track =
                     Exported([i \in 1..Len(hist'[j].synthesized) |->
                         Synthesize(Translate(
                             hist'[j].units[hist'[j].synthesized[i]]))])]_vars

\* An exception was raised in job j's pipeline work in this step: one that
\* reached the task's except clause, or one of a unit's translation or
\* synthesis.
ExceptionRaised(j) ==
    \/ hist[j].result # "raised" /\ hist'[j].result = "raised"
    \/ UnitFailed(j)

\* C13: every exception raised in a job's pipeline work, the work done from
\* the transcript callback included, leaves the job failed with its error
\* recorded.
C13_ExceptionsFailTheJob ==
    [][\A j \in Jobs :
          ExceptionRaised(j) =>
              /\ active_jobs'[j].status = "failed"
              /\ active_jobs'[j].error # None]_vars

\* The first run of job j's task ends in the except clause: resolving the
\* audio URL (or building the STT client) raised.
ExtractionFails(j) == task[j].pc = "scheduled" /\ task'[j].pc = "done"

\* C14: when resolving the audio URL fails, the job goes in that one step
\* from its initial status to failed with the exception's message as its
\* error, with no STT connection, no chunk sent and no unit; and a task that
\* ended without a connection leaves the record, the connection and the
\* units as they are from then on, so the job never becomes transcribing.
C14_ExtractionFailure ==
    [][\A j \in Jobs :
          /\ ExtractionFails(j) =>
                 /\ active_jobs[j].status = "initializing"
                 /\ active_jobs'[j].status = "failed"
                 /\ active_jobs'[j].error \in ErrMsgs
                 /\ active_jobs'[j].segments = <<>>
                 /\ env'[j] = NoEnv
                 /\ hist'[j].units = <<>>
          /\ (task[j].pc = "done" /\ env[j].conn = "none") =>
                 /\ active_jobs'[j] = active_jobs[j]
                 /\ task'[j] = task[j]
                 /\ env'[j] = env[j]
                 /\ hist'[j].units = hist[j].units]_vars

C14_Witness ==
    \E j \in Jobs :
        /\ task[j].pc = "done"
        /\ active_jobs[j].status = "failed"
        /\ active_jobs[j].error = "cause"
        /\ env[j] = NoEnv
        /\ hist[j].units = <<>>

\* C15: a completed job has its output_file set and its error unset; a
\* failed job has its error set and its output_file unset.
C15_OutcomeFields ==
    \A j \in Jobs :
        /\ active_jobs[j].status = "completed" =>
               active_jobs[j].output_file # None /\ active_jobs[j].error = None
        /\ active_jobs[j].status = "failed" =>
               active_jobs[j].error # None /\ active_jobs[j].output_file = None

\* The job failed after the stream ended with speech files already written.
C15_Witness ==
    \E j \in Jobs :
        /\ active_jobs[j].status = "failed"
        /\ env[j].conn = "closed"
        /\ task[j].audio_segments # <<>>

\* C16: a cancelled job has no output_file.
C16_CancelledHasNoOutput ==
    \A j \in Jobs :
        active_jobs[j].status = "cancelled" => active_jobs[j].output_file = None

\* The job was cancelled after speech files were written.
C16_Witness ==
    \E j \in Jobs :
        /\ active_jobs[j].status = "cancelled"
        /\ task[j].audio_segments # <<>>

\* C17: for an id that is not in the registry the status query, the output
\* request and the cancel request answer 404 and the cancel request leaves
\* the registry as it is; for an id that is in the registry the status query
\* answers with the job's record.
C17_UnknownIdNotFound ==
    /\ [](\A j \in AllJobIds :
             IF j \in Jobs
             THEN GetJobStatus(active_jobs, j) = [code |-> 200, body |-> active_jobs[j]]
             ELSE /\ GetJobStatus(active_jobs, j).code = 404
                  /\ \A on_disk \in BOOLEAN :
                         GetDubbedAudio(active_jobs, j, on_disk).code = 404
                  /\ CancelDubbingJob(active_jobs, j) =
                         [code |-> 404, jobs |-> active_jobs])
    /\ [][\A j \in AllJobIds \ Jobs : Cancel(j) => active_jobs' = active_jobs]_vars

\* One job is at work while another id is unknown.
C17_Witness ==
    \E j \in Jobs, k \in AllJobIds \ Jobs :
        /\ active_jobs[j].status = "transcribing"
        /\ active_jobs[j].segments # <<>>
        /\ GetJobStatus(active_jobs, j).code = 200
        /\ GetJobStatus(active_jobs, k).code = 404

\* The response to a request for job j's output in the current state.
AudioResponse(j) == GetDubbedAudio(active_jobs, j, env[j].output_track.exists)

\* C18: the output request answers 400 (not ready) while the job's status is
\* not completed; when it is completed the output_file is recorded and the
\* request answers with that file.
C18_OutputOnlyWhenCompleted ==
    \A j \in Jobs :
        IF active_jobs[j].status # "completed"
        THEN AudioResponse(j).code = 400
        ELSE /\ active_jobs[j].output_file # None
             /\ AudioResponse(j) = [code |-> 200, path |-> active_jobs[j].output_file]

C18_Witness ==
    \E j \in Jobs :
        /\ active_jobs[j].status = "completed_no_audio"
        /\ AudioResponse(j).code = 400

\* What a status query for job j reads in the current state.
Snapshot(j) == GetJobStatus(active_jobs, j).body

\* C19: a status query, which runs between two steps of the pipeline, never
\* reads completed with output_file unset or progress below 100, nor failed
\* or completed_no_audio with error unset.
C19_ConsistentSnapshot ==
    \A j \in Jobs :
        /\ Snapshot(j).status = "completed" =>
               /\ Snapshot(j).output_file # None
               /\ Snapshot(j).progress = ProgressDone
        /\ Snapshot(j).status \in {"failed", "completed_no_audio"} =>
               Snapshot(j).error # None

\* The record right after the final status was written over two earlier
\* progress updates.
C19_Witness ==
    \E j \in Jobs :
        /\ Snapshot(j).status = "completed"
        /\ Snapshot(j).progress = ProgressDone
        /\ Len(Snapshot(j).segments) >= 2

\* The numbers of speech files for which the progress formula is evaluated
\* on its own: enough for the cap to take effect.
MaxSegments == 25

\* C20: a job's progress is always in 0..100 and no step decreases it; the
\* progress formula itself stays in 0..100 and does not decrease as the
\* number of speech files grows.
C20_ProgressMonotone ==
    /\ [](\A j \in Jobs : active_jobs[j].progress \in 0..ProgressDone)
    /\ [][\A j \in Jobs : active_jobs'[j].progress >= active_jobs[j].progress]_vars
    /\ [](\A n \in 0..MaxSegments :
             LET files == [i \in 1..n |-> i]
             IN  /\ Progress(files) \in 0..ProgressDone
                 /\ Progress(files) <= Progress(Append(files, n + 1))
                 /\ Progress(Append(files, n + 1)) <= ProgressDone)

\* A cancelled job whose progress was raised twice.
C20_Witness ==
    \E j \in Jobs :
        /\ active_jobs[j].status = "cancelled"
        /\ active_jobs[j].progress = 2 * ProgressStep

\* C21: starting a job adds, under an id that no record has, a record with
\* status initializing, progress 0, no segments, no output_file and no
\* error, and leaves every other record as it is; the status query made
\* right after it, in the same step, answers with that record.
C21_StartInsertsFreshRecord ==
    [][\A j \in AllJobIds :
          StartJob(j) =>
              /\ j \notin Jobs
              /\ DOMAIN active_jobs' = Jobs \cup {j}
              /\ \A k \in Jobs : active_jobs'[k] = active_jobs[k]
              /\ active_jobs'[j].id = j
              /\ active_jobs'[j].status = "initializing"
              /\ active_jobs'[j].progress = 0
              /\ active_jobs'[j].segments = <<>>
              /\ active_jobs'[j].output_file = None
              /\ active_jobs'[j].error = None
              /\ GetJobStatus(active_jobs', j) =
                     [code |-> 200, body |-> active_jobs'[j]]]_vars

\* A job was started while another one had already ended.
C21_Witness ==
    \E j, k \in Jobs :
        /\ j # k
        /\ active_jobs[j].status = "initializing"
        /\ task[j].pc = "scheduled"
        /\ active_jobs[k].status = "completed_no_audio"

\* The place of a status in the order initializing, extracting_audio,
\* transcribing, final.
Rank(status) ==
    CASE status = "initializing" -> 0
      [] status = "extracting_audio" -> 1
      [] status = "transcribing" -> 2
      [] OTHER -> 3

C23_NoChunkAfterCancel ==
    [][\A j \in Jobs :
          active_jobs[j].status = "cancelled" =>
              env'[j].chunks_sent = env[j].chunks_sent]_vars

\* C24: once a job's status is cancelled, a transcript fragment that arrives
\* creates no translation unit; only the end-of-stream flush may still
\* create one.
C24_NoUnitAfterCancel ==
    [][\A j \in Jobs :
          (/\ active_jobs[j].status = "cancelled"
           /\ hist'[j].fragments # hist[j].fragments) =>
              hist'[j].units = hist[j].units]_vars

C26_SegmentsCountCompletedUnits ==
    \A j \in Jobs :
        task[j].pc = "done" =>
            Len(active_jobs[j].segments) = Len(hist[j].synthesized)

\* C27: no step changes or removes an entry of a job's segments list; every
\* entry is the text of a unit with its translation, the entries are in the
\* order in which their units were created, and each unit that was
\* translated and synthesized has exactly one entry.
C27_SegmentsAppendOnly ==
    /\ [][\A j \in Jobs :
             /\ Len(active_jobs'[j].segments) >= Len(active_jobs[j].segments)
             /\ SubSeq(active_jobs'[j].segments, 1, Len(active_jobs[j].segments))
                    = active_jobs[j].segments]_vars
    /\ [](\A j \in Jobs :
             LET segs == active_jobs[j].segments
                 units == hist[j].units
             IN  /\ \A i \in 1..Len(segs) :
                        \E u \in 1..Len(units) :
                            segs[i] = [original |-> units[u],
                                       translated |-> Translate(units[u])]
                 /\ \A a, b \in 1..Len(segs) :
                        a < b => \E u, v \in 1..Len(units) :
                                     /\ u < v
                                     /\ units[u] = segs[a].original
                                     /\ units[v] = segs[b].original
                 /\ \A k \in 1..Len(hist[j].synthesized) :
                        Cardinality({i \in 1..Len(segs) :
                            segs[i].original = units[hist[j].synthesized[k]]}) = 1)

\* Two entries, of the first and the third unit.
C27_Witness ==
    \E j \in Jobs :
        /\ Len(hist[j].units) = 3
        /\ Len(active_jobs[j].segments) = 2
        /\ active_jobs[j].segments[2].original = hist[j].units[3]

\* C28: after every unit, synthesized or skipped, the progress is
\* min(90, units * step); while the job is not completed its progress is at
\* most 90, and it is 100 exactly when the status is completed.
C28_ProgressPerResolvedUnit ==
    /\ [](\A j \in Jobs :
             /\ active_jobs[j].status # "completed" =>
                    active_jobs[j].progress <= ProgressCap
             /\ active_jobs[j].progress = ProgressDone <=>
                    active_jobs[j].status = "completed")
    /\ [][\A j \in Jobs :
             (/\ Len(hist'[j].units) = Len(hist[j].units) + 1
              /\ active_jobs'[j].status # "completed") =>
                 active_jobs'[j].progress =
                     Min(ProgressCap, Len(hist'[j].units) * ProgressStep)]_vars

\* C29 as stated: a job's error is written at most once, only in the step
\* that makes the job failed, and it is unset in every state whose status
\* is not failed.
C29_ErrorOnlyWhenFailed ==
    /\ [](\A j \in Jobs :
             active_jobs[j].status # "failed" => active_jobs[j].error = None)
    /\ [][\A j \in Jobs :
             active_jobs'[j].error # active_jobs[j].error =>
                 /\ active_jobs[j].error = None
                 /\ active_jobs[j].status # "failed"
                 /\ active_jobs'[j].status = "failed"]_vars

\* C29: a job's error is written at most once, in the step that ends the
\* job's task by making it failed or completed_no_audio; it is unset until
\* that step, and in every state whose status is initializing, transcribing
\* or completed.
C29_ErrorWrittenOnce ==
    /\ [](\A j \in Jobs :
             (\/ task[j].pc # "done"
              \/ active_jobs[j].status \in {"initializing", "transcribing", "completed"})
                 => active_jobs[j].error = None)
    /\ [][\A j \in Jobs :
             active_jobs'[j].error # active_jobs[j].error =>
                 /\ active_jobs[j].error = None
                 /\ task[j].pc # "done"
                 /\ task'[j].pc = "done"
                 /\ active_jobs[j].status \notin {"failed", "completed_no_audio"}
                 /\ active_jobs'[j].status \in {"failed", "completed_no_audio"}]_vars

\* Every unit of the job failed and the job ended without audio.
C29_Witness ==
    \E j \in Jobs :
        /\ active_jobs[j].status = "completed_no_audio"
        /\ active_jobs[j].error = NoAudioMsg
        /\ hist[j].units # <<>>

\* The step delivers a transcript to job j that is empty or whitespace only.
BlankDelivered(j) ==
    /\ Len(hist'[j].fragments) = Len(hist[j].fragments) + 1
    /\ Strip(hist'[j].fragments[Len(hist'[j].fragments)]) = <<>>

\* C30: handling a transcript that is empty or whitespace only leaves the
\* accumulator and the task's other locals, the units, the speech files
\* and the job's record as they are.
C30_BlankDiscarded ==
    [][\A j \in Jobs :
          BlankDelivered(j) =>
              /\ task'[j] = task[j]
              /\ hist'[j].units = hist[j].units
              /\ env'[j] = env[j]
              /\ active_jobs'[j] = active_jobs[j]]_vars

\* A whitespace-only transcript arrived while text was accumulated.
C30_Witness ==
    \E j \in Jobs :
        /\ hist[j].fragments # <<>>
        /\ hist[j].fragments[Len(hist[j].fragments)] = << <<0, 2>> >>
        /\ task[j].buffer_content # <<>>
        /\ hist[j].units = <<>>

Untouched(a) ==
    /\ a \in DOMAIN active_jobs' <=> a \in Jobs
    /\ a \in Jobs => active_jobs'[a] = active_jobs[a]
    /\ task'[a] = task[a]
    /\ env'[a] = env[a]
    /\ hist'[a] = hist[a]

\* C32: the start of job a and a cancel request addressed to job a leave
\* every other job as it is; and a step that changes the record or the
\* task of a job b changes nothing of any other job, so it is no step of
\* another job's pipeline (each of which changes its own task, connection
\* or history).
C32_JobsIsolated ==
    [][/\ \A a \in AllJobIds :
             (StartJob(a) \/ Cancel(a)) => \A b \in AllJobIds \ {a} : Untouched(b)
       /\ \A b \in Jobs :
             (active_jobs'[b] # active_jobs[b] \/ task'[b] # task[b]) =>
                 \A a \in AllJobIds \ {b} : Untouched(a)]_vars

\* One job has translated a unit while the other one is cancelled.
C32_Witness ==
    \E a, b \in Jobs :
        /\ a # b
        /\ active_jobs[a].segments # <<>>
        /\ active_jobs[a].progress = ProgressStep
        /\ active_jobs[b].status = "cancelled"
\* C33: every started job eventually has a status among completed,
\* completed_no_audio, failed and cancelled and keeps one of them for ever,
\* when the event loop runs its task and every await of the task returns.
C33_EveryJobEnds ==
    \A j \in SpecJobIds :
        <>[](j \in Jobs => active_jobs[j].status \in TerminalStates)

\* A job has ended by its own decision, with a track.
C33_Witness ==
    \E j \in Jobs :
        /\ task[j].pc = "done"
        /\ hist[j].fragments # <<>>
        /\ active_jobs[j].status = "completed"

NonEmpty(sentences) == SelectSeq(sentences, LAMBDA s : Len(s) # 0)

\* a can be obtained from b by deleting elements.
RECURSIVE IsSubseq(_, _)
IsSubseq(a, b) ==
    IF a = <<>> THEN TRUE
    ELSE IF b = <<>> THEN FALSE
    ELSE IF Head(a) = Head(b) THEN IsSubseq(Tail(a), Tail(b))
    ELSE IsSubseq(a, Tail(b))

\* C35: the texts sent to the TTS socket, followed by the texts waiting in
\* the queue, are non-empty transcripts the callback received, in the order
\* of their reception and each taken once; the queue is the tail of the
\* received non-empty transcripts, and no empty text is queued or sent.
C35_SentInReceivedOrder ==
    /\ IsSubseq(pipeline.tts_sent \o pipeline.transcription_queue,
                NonEmpty(pipeline.received))
    /\ \E n \in 0..Len(pipeline.received) :
          pipeline.transcription_queue =
              SubSeq(NonEmpty(pipeline.received),
                     n + 1, Len(NonEmpty(pipeline.received)))
    /\ \A i \in DOMAIN pipeline.transcription_queue :
          pipeline.transcription_queue[i] # ""
    /\ \A i \in DOMAIN pipeline.tts_sent : pipeline.tts_sent[i] # ""

\* Two transcripts with an empty one between them were received and both
\* were sent.
C35_Witness ==
    /\ pipeline.received = <<"uno", "", "dos">>
    /\ pipeline.tts_sent = <<"uno", "dos">>

\* C36: transcription_streamer never calls send() on a connection that
\* stop() has finished.
C36_NoSendAfterFinish == ~pipeline.late_send

\* C37: once stop() has set the exit event, the three threads end, every
\* join returns and stop() reaches its end.
C37_StopReachesEnd ==
    pipeline.exit ~>
        /\ pipeline.stopper = "stopped"
        /\ pipeline.sender = "exited"
        /\ pipeline.streamer = "exited"
        /\ pipeline.player = "exited"

\* stop() returned after a transcript was sent while a chunk waited for
\* the lock.
C37_Witness ==
    /\ pipeline.stopper = "stopped"
    /\ pipeline.tts_sent # <<>>
    /\ pipeline.data > 0

\* The concatenation of a sequence of chunks.
RECURSIVE Flatten(_)
Flatten(chunks) ==
    IF chunks = <<>> THEN <<>> ELSE Head(chunks) \o Flatten(Tail(chunks))

\* C38: the chunks cut so far are consecutive and do not overlap: in order
\* they make up the beginning of the input; each of the first nine has
\* len // 10 bytes; and a call that no exception ended has cut exactly 10
\* chunks that make up the whole input.
C38_TenChunksCoverInput ==
    LET t == transcription
        cut == Flatten(t.chunks)
    IN  /\ Len(cut) <= Len(t.audio_data)
        /\ cut = SubSeq(t.audio_data, 1, Len(cut))
        /\ \A k \in DOMAIN t.chunks :
              k <= LastChunk => Len(t.chunks[k]) = Len(t.audio_data) \div NumChunks
        /\ t.pc = "done" => Len(t.chunks) = NumChunks /\ cut = t.audio_data

\* An input of 7 bytes, shorter than 10 and not a multiple of 10, was cut.
C38_Witness ==
    /\ transcription.pc = "done"
    /\ Len(transcription.audio_data) = 7
    /\ transcription.chunks[NumChunks] = transcription.audio_data

====
